---- MODULE Spec2Model ----
(***************************************************************************)
(* FlowPic dataset pipeline of naysashrm/tds-ga2-03.                       *)
(*                                                                         *)
(*   Spec       traffic_csv_converter: one CSV file, row by row            *)
(*              (record parser, session segmenter, histogram builder).     *)
(*   SpecClass  iterate_all_classes / traffic_class_converter.             *)
(*   SpecGen    generate_combined_vpn_type_test_sets.                      *)
(*                                                                         *)
(* Timestamps are whole seconds.  A CSV field is a token: a numeric        *)
(* literal (k = "num") or text that no numeric conversion accepts          *)
(* (k = "text": metadata, the blank separator column, garbage).            *)
(***************************************************************************)
EXTENDS Integers, Sequences, FiniteSets, Bags, TLC

VARIABLES
    pc,                 \* position of the running function
    \* ---- traffic_csv_converter
    i,                  \* rows read so far (enumerate(reader))
    row,                \* the current CSV row
    length, ts, sizes,  \* the parsed session record of the current row
    dataset,            \* list of one-element lists [h]
    counter,            \* FlowPics extracted
    skipped_segments,   \* the skip counter
    result,             \* the returned array
    \* ---- iterate_all_classes / traffic_class_converter
    n_dirs,             \* number of paths glob.glob(CLASSES_DIR) matched
    d,                  \* directories visited so far
    class_dir,          \* the current directory
    pending,            \* files of csv_files_in_dir not yet converted
    dataset_list,       \* per-file arrays collected for class_dir
    class_dataset,      \* what traffic_class_converter returned
    exported,           \* the .npy files written by export_class_dataset
    found_class_dirs,
    \* ---- generate_combined_vpn_type_test_sets
    v,                  \* index of vpn_type in VPN_TYPES_TO_GENERATE
    c,                  \* index of class_name in CLASS_NAMES
    all_x_for_vpn_type,
    all_y_for_vpn_type,
    combined_x_vpn_type,
    combined_y_vpn_type,
    saved               \* the files written under DATASET_DIR

csvVars == <<i, row, length, ts, sizes, dataset, counter, skipped_segments, result>>
classVars == <<n_dirs, d, class_dir, pending, dataset_list, class_dataset,
               exported, found_class_dirs>>
genVars == <<v, c, all_x_for_vpn_type, all_y_for_vpn_type,
             combined_x_vpn_type, combined_y_vpn_type, saved>>
vars == <<pc, csvVars, classVars, genVars>>

(***************************************************************************)
(* Configuration                                                           *)
(***************************************************************************)
TPS == 60
DELTA_T == 60
MIN_TPS == 50
MinColumns == 9
MinSessionLen == 10
MinSegmentLen == 10

(***************************************************************************)
(* Bounds of the model                                                     *)
(***************************************************************************)
MaxRows == 2
MaxMinutes == 2

(***************************************************************************)
(* Python and numpy primitives                                             *)
(***************************************************************************)
\* s[lo:hi] on a 0-based Python list (negative indices count from the end,
\* out-of-range indices are clipped, never an error)
PySlice(s, lo, hi) ==
    LET n == Len(s)
        Norm(k) == IF k < 0 THEN (IF k + n < 0 THEN 0 ELSE k + n)
                   ELSE (IF k > n THEN n ELSE k)
    IN  IF Norm(lo) >= Norm(hi) THEN << >>
        ELSE SubSeq(s, Norm(lo) + 1, Norm(hi))

\* int(num / den) for den > 0: Python's int() truncates toward zero
PyInt(num, den) ==
    IF num >= 0 THEN num \div den ELSE -((-num) \div den)

\* int(field) / float(field): the conversion succeeds on numeric literals only
IsNumeric(tok) == tok.k = "num"
AllNumeric(fields) == \A j \in 1..Len(fields) : IsNumeric(fields[j])
\* np.array(fields, dtype=...): the values of the literals
ToArray(fields) == [j \in 1..Len(fields) |-> fields[j].v]

\* a[mask] for a boolean mask of the same length
RECURSIVE BoolIndexFrom(_, _, _)
BoolIndexFrom(a, mask, j) ==
    IF j > Len(a) THEN << >>
    ELSE (IF mask[j] THEN <<a[j]>> ELSE << >>) \o BoolIndexFrom(a, mask, j + 1)
BoolIndex(a, mask) == BoolIndexFrom(a, mask, 1)

(***************************************************************************)
(* Histogram Builder (sessions_plotter.session_2d_histogram): a            *)
(* deterministic function of the segment; the FlowPic is kept as the       *)
(* segment it was built from.                                              *)
(***************************************************************************)
session_2d_histogram(ts_mask, sizes_mask) ==
    [ts |-> ts_mask, sizes |-> sizes_mask]

(***************************************************************************)
(* Session Segmenter                                                       *)
(***************************************************************************)
\* variant: the window end taken from the next window start
InWindowNextEnd(x, t) == x >= t * DELTA_T /\ x <= (t + 1) * DELTA_T + TPS
\* mask = (ts >= t * DELTA_T) & (ts <= (t * DELTA_T + TPS))
InWindow(x, t) == x >= t * DELTA_T /\ x <= t * DELTA_T + TPS
WindowMask(a, t) == [j \in 1..Len(a) |-> InWindow(a[j], t)]

\* variant: the range end made inclusive
RangeStopInclusive(a) == PyInt(a[Len(a)] - TPS, DELTA_T) + 2
\* range(int(ts[-1] / DELTA_T - TPS / DELTA_T) + 1) is 0 .. RangeStop - 1
RangeStop(a) == PyInt(a[Len(a)] - TPS, DELTA_T) + 1

\* len(ts_mask) > 10 and (ts_mask[-1] - ts_mask[0]) > MIN_TPS
SegmentValid(ts_mask) ==
    /\ Len(ts_mask) > MinSegmentLen
    /\ ts_mask[Len(ts_mask)] - ts_mask[1] > MIN_TPS

\* The for loop over t.  st = [dataset, counter, skipped_segments].
\* sizes[mask] raises IndexError when sizes and the mask differ in length;
\* the handler counts one skip and the row is left.
RECURSIVE SegmentLoop(_, _, _, _, _)
SegmentLoop(a, sz, t, stop, st) ==
    IF t >= stop THEN st
    ELSE LET mask == WindowMask(a, t)
             ts_mask == BoolIndex(a, mask)
         IN  IF Len(sz) # Len(mask)
             THEN [st EXCEPT !.skipped_segments = @ + 1]
             ELSE IF SegmentValid(ts_mask)
                  THEN SegmentLoop(a, sz, t + 1, stop,
                         [st EXCEPT
                            !.dataset = Append(@,
                               <<session_2d_histogram(ts_mask, BoolIndex(sz, mask))>>),
                            !.counter = @ + 1])
                  ELSE SegmentLoop(a, sz, t + 1, stop,
                         [st EXCEPT !.skipped_segments = @ + 1])

\* if length > 10: ... else: skipped_segments += 1
SegmentSession(len, a, sz, st) ==
    IF len > MinSessionLen
    THEN SegmentLoop(a, sz, 0, RangeStop(a), st)
    ELSE [st EXCEPT !.skipped_segments = @ + 1]

(***************************************************************************)
(* Record Parser                                                           *)
(***************************************************************************)
\* len(row) < 9
TooFewColumns(r) == Len(r) < MinColumns

\* variant: only the timestamp slice is checked against the row
LengthOutOfBoundsTsOnly(r, len) == (8 + len) > Len(r)
\* (8 + length) > len(row) or (9 + length) > len(row)
LengthOutOfBounds(r, len) == (8 + len) > Len(r) \/ (9 + len) > Len(r)

\* row[8:8 + length]
TsFields(r, len) == PySlice(r, 8, 8 + len)

\* variant: the sizes taken right after the timestamps
SizeFieldsNoSeparator(r, len) == PySlice(r, 8 + len, Len(r))
\* row[9 + length:]
SizeFields(r, len) == PySlice(r, 9 + len, Len(r))

\* "short" | "bounds": continue, nothing counted; "value": ValueError,
\* one skip counted; "ok": the session record is handed to the segmenter
ParseOutcome(r) ==
    IF TooFewColumns(r) THEN "short"
    ELSE IF ~IsNumeric(r[8]) THEN "value"
    ELSE IF LengthOutOfBounds(r, r[8].v) THEN "bounds"
    ELSE IF ~AllNumeric(TsFields(r, r[8].v)) THEN "value"
    ELSE IF ~AllNumeric(SizeFields(r, r[8].v)) THEN "value"
    ELSE "ok"

(***************************************************************************)
(* Input rows                                                              *)
(***************************************************************************)
Num(n) == [k |-> "num", v |-> n]
Text == [k |-> "text", v |-> 0]
Nums(a) == [j \in 1..Len(a) |-> Num(a[j])]
Repeat(x, n) == [j \in 1..n |-> x]
Meta == Repeat(Text, 7)

TimeGrid == {0, 5, 55, 60, 115} \cup {60 * m : m \in 2..MaxMinutes}
PacketSizes(n) == [j \in 1..n |-> 100 + j]

\* time-ordered sessions of n packets: first packet, a burst, last packet
Sessions(n) ==
    {<<a>> \o Repeat(b, n - 2) \o <<e>> :
        <<a, b, e>> \in {t3 \in TimeGrid \X TimeGrid \X TimeGrid :
                            t3[1] <= t3[2] /\ t3[2] <= t3[3]}}

\* metadata, length, timestamps, one separator column, sizes
SeparatedRow(a) ==
    Meta \o <<Num(Len(a))>> \o Nums(a) \o <<Text>> \o Nums(PacketSizes(Len(a)))
\* metadata, length, timestamps, sizes
PackedRow(a) ==
    Meta \o <<Num(Len(a))>> \o Nums(a) \o Nums(PacketSizes(Len(a)))
\* a row of n fields declaring len timestamps
DeclaredRow(n, len) == Meta \o <<Num(len)>> \o Nums([j \in 1..(n - 8) |-> j])

SessionRows ==
    {SeparatedRow(a) : a \in Sessions(MinSessionLen + 2)}
    \cup {PackedRow(a) : a \in {s \in Sessions(MinSessionLen + 2) : s[1] = 0 /\ s[2] = s[Len(s)]}}
    \cup {SeparatedRow(a) : a \in {s \in Sessions(MinSessionLen) : s[1] = 0 /\ s[2] = s[Len(s)]}}
BoundaryRows ==
    {DeclaredRow(n, len) : <<n, len>> \in
        {p \in (9..11) \X (-1..4) : p[2] \in {-1, 0, p[1] - 9, p[1] - 8, p[1] - 7}}}
MalformedRows ==
    { << >>, Meta, Meta \o <<Num(0)>>,
      Meta \o <<Text, Num(1), Text, Num(101)>>,
      Meta \o <<Num(1), Text, Text, Num(101)>>,
      Meta \o <<Num(1), Num(1), Text, Text>>,
      Meta \o <<Num(1), Num(1), Num(101), Num(102)>> }
RowSet == SessionRows \cup BoundaryRows \cup MalformedRows

(***************************************************************************)
(* traffic_csv_converter                                                   *)
(***************************************************************************)
NoRow == << >>
CsvIdle ==
    /\ i = 0 /\ row = NoRow /\ length = 0 /\ ts = << >> /\ sizes = << >>
    /\ dataset = << >> /\ counter = 0 /\ skipped_segments = 0 /\ result = << >>
ClassIdle ==
    /\ n_dirs = 0 /\ d = 0 /\ class_dir = [name |-> 0] /\ pending = {}
    /\ dataset_list = << >> /\ class_dataset = << >> /\ exported = {}
    /\ found_class_dirs = FALSE
GenIdle ==
    /\ v = 0 /\ c = 0 /\ all_x_for_vpn_type = << >> /\ all_y_for_vpn_type = << >>
    /\ combined_x_vpn_type = << >> /\ combined_y_vpn_type = << >> /\ saved = {}

Init == pc = "open" /\ CsvIdle /\ ClassIdle /\ GenIdle

\* open(file_path) succeeds
OpenFile ==
    /\ pc = "open"
    /\ pc' = "rows"
    /\ UNCHANGED <<csvVars, classVars, genVars>>

\* FileNotFoundError, or any error opening or reading: return np.array([])
ReadFails ==
    /\ pc \in {"open", "rows"}
    /\ result' = << >>
    /\ pc' = "done"
    /\ UNCHANGED <<i, row, length, ts, sizes, dataset, counter, skipped_segments>>
    /\ UNCHANGED <<classVars, genVars>>

\* for i, row in enumerate(reader)
ReadRow ==
    /\ pc = "rows"
    /\ i < MaxRows
    /\ \E r \in RowSet : row' = r
    /\ i' = i + 1
    /\ pc' = "parse"
    /\ UNCHANGED <<length, ts, sizes, dataset, counter, skipped_segments, result>>
    /\ UNCHANGED <<classVars, genVars>>

\* lines 77-92: the column check, length, the bounds check, ts and sizes
ParseRow ==
    /\ pc = "parse"
    /\ LET outcome == ParseOutcome(row) IN
       /\ pc' = IF outcome = "ok" THEN "segment" ELSE "rows"
       /\ skipped_segments' =
             IF outcome = "value" THEN skipped_segments + 1 ELSE skipped_segments
       /\ length' = IF outcome \in {"bounds", "ok"} THEN row[8].v ELSE length
       /\ ts' = IF outcome = "ok" THEN ToArray(TsFields(row, row[8].v)) ELSE ts
       /\ sizes' = IF outcome = "ok" THEN ToArray(SizeFields(row, row[8].v)) ELSE sizes
    /\ UNCHANGED <<i, row, dataset, counter, result>>
    /\ UNCHANGED <<classVars, genVars>>

\* lines 96-119: the segmentation of one session
SegmentRow ==
    /\ pc = "segment"
    /\ LET st == SegmentSession(length, ts, sizes,
                   [dataset |-> dataset, counter |-> counter,
                    skipped_segments |-> skipped_segments])
       IN  /\ dataset' = st.dataset
           /\ counter' = st.counter
           /\ skipped_segments' = st.skipped_segments
    /\ pc' = "rows"
    /\ UNCHANGED <<i, row, length, ts, sizes, result>>
    /\ UNCHANGED <<classVars, genVars>>

\* the reader is exhausted: return np.asarray(dataset)
EndOfFile ==
    /\ pc = "rows"
    /\ result' = dataset
    /\ pc' = "done"
    /\ UNCHANGED <<i, row, length, ts, sizes, dataset, counter, skipped_segments>>
    /\ UNCHANGED <<classVars, genVars>>

Next == OpenFile \/ ReadFails \/ ReadRow \/ ParseRow \/ SegmentRow \/ EndOfFile

Spec == Init /\ [][Next]_vars

(***************************************************************************)
(* traffic_csv_converter as a function of the file, for its callers        *)
(***************************************************************************)
\* one pass of the loop body over row r
RowStep(r, st) ==
    LET outcome == ParseOutcome(r)
    IN  IF outcome \in {"short", "bounds"} THEN st
        ELSE IF outcome = "value" THEN [st EXCEPT !.skipped_segments = @ + 1]
        ELSE SegmentSession(r[8].v, ToArray(TsFields(r, r[8].v)),
                            ToArray(SizeFields(r, r[8].v)), st)

RECURSIVE ConvertRows(_, _, _)
ConvertRows(rows, j, st) ==
    IF j > Len(rows) THEN st ELSE ConvertRows(rows, j + 1, RowStep(rows[j], st))

\* the array returned for a file: empty when it cannot be opened or read
CsvConvert(file) ==
    IF ~file.readable THEN << >>
    ELSE ConvertRows(file.rows, 1,
            [dataset |-> << >>, counter |-> 0, skipped_segments |-> 0]).dataset

(***************************************************************************)
(* iterate_all_classes and traffic_class_converter                         *)
(***************************************************************************)
MaxDirs == 2
MaxFiles == 2

TwoWindowRow == SeparatedRow(<<0>> \o Repeat(60, MinSessionLen) \o <<120>>)
OneWindowRow == SeparatedRow(Repeat(0, MinSessionLen + 1) \o <<55>>)
NarrowRow == SeparatedRow(Repeat(5, MinSessionLen + 1) \o <<55>>)
\* the directory entries os.listdir can return
DirEntries ==
    { [csv |-> TRUE, readable |-> TRUE, rows |-> <<TwoWindowRow>>],
      [csv |-> TRUE, readable |-> TRUE, rows |-> <<Meta, OneWindowRow>>],
      [csv |-> TRUE, readable |-> TRUE, rows |-> <<NarrowRow>>],
      [csv |-> TRUE, readable |-> FALSE, rows |-> <<OneWindowRow>>],
      [csv |-> FALSE, readable |-> TRUE, rows |-> << >>] }
\* a path matched by glob: a class directory, one whose path contains
\* "other", or a plain file
PathKinds == {"dir", "other", "file"}
Listings == UNION {[1..n -> DirEntries] : n \in 0..MaxFiles}

\* array.size > 0
NonEmpty(a) == Len(a) > 0

\* np.concatenate(dataset_list, axis=0)
RECURSIVE Concatenate(_)
Concatenate(list) ==
    IF list = << >> THEN << >> ELSE Head(list) \o Concatenate(Tail(list))

\* variant: the list is replaced instead of extended
CollectLast(list, single_csv_dataset) ==
    IF Len(single_csv_dataset) > 0 THEN <<single_csv_dataset>> ELSE list
\* if single_csv_dataset.size > 0: dataset_list.append(single_csv_dataset)
Collect(list, single_csv_dataset) ==
    IF NonEmpty(single_csv_dataset) THEN Append(list, single_csv_dataset) ELSE list

\* variant: the export is not guarded
ShouldExportAlways(a) == TRUE
\* if dataset.size > 0: export_class_dataset(dataset, class_dir)
ShouldExport(a) == NonEmpty(a)

InitClass ==
    /\ pc = "dirs" /\ CsvIdle /\ GenIdle
    /\ n_dirs \in 0..MaxDirs
    /\ d = 0 /\ class_dir = [name |-> 0] /\ pending = {}
    /\ dataset_list = << >> /\ class_dataset = << >> /\ exported = {}
    /\ found_class_dirs = FALSE

\* for class_dir in sorted(glob.glob(CLASSES_DIR)): the isdir and "other" filters
NextDir ==
    /\ pc = "dirs"
    /\ d < n_dirs
    /\ d' = d + 1
    /\ \E kind \in PathKinds, files \in Listings :
          /\ kind = "file" => files = << >>
          /\ class_dir' = [name |-> d + 1, kind |-> kind, files |-> files]
          /\ pc' = IF kind = "dir" THEN "listdir" ELSE "dirs"
          /\ found_class_dirs' = (found_class_dirs \/ kind = "dir")
    /\ UNCHANGED <<n_dirs, pending, dataset_list, class_dataset, exported>>
    /\ UNCHANGED <<csvVars, genVars>>

\* traffic_class_converter, lines 145-152: the .csv files of the directory
ListDir ==
    /\ pc = "listdir"
    /\ LET csv_files_in_dir == {f \in DOMAIN class_dir.files : class_dir.files[f].csv}
       IN  /\ pending' = csv_files_in_dir
           /\ dataset_list' = << >>
           /\ IF csv_files_in_dir = {}
              THEN class_dataset' = << >> /\ pc' = "export"
              ELSE UNCHANGED class_dataset /\ pc' = "files"
    /\ UNCHANGED <<n_dirs, d, class_dir, exported, found_class_dirs>>
    /\ UNCHANGED <<csvVars, genVars>>

\* lines 155-158: one file, in whatever order os.listdir gave
ConvertFile ==
    /\ pc = "files"
    /\ \E f \in pending :
          /\ dataset_list' = Collect(dataset_list, CsvConvert(class_dir.files[f]))
          /\ pending' = pending \ {f}
    /\ UNCHANGED <<pc, n_dirs, d, class_dir, class_dataset, exported, found_class_dirs>>
    /\ UNCHANGED <<csvVars, genVars>>

\* lines 161-166: return the concatenation, or an empty array
ReturnClassDataset ==
    /\ pc = "files"
    /\ pending = {}
    /\ class_dataset' = IF dataset_list = << >> THEN << >> ELSE Concatenate(dataset_list)
    /\ pc' = "export"
    /\ UNCHANGED <<n_dirs, d, class_dir, pending, dataset_list, exported, found_class_dirs>>
    /\ UNCHANGED <<csvVars, genVars>>

\* lines 189-192: export, or skip the export; the file is kept by its
\* directory and its shape
ExportOrSkip ==
    /\ pc = "export"
    /\ exported' = IF ShouldExport(class_dataset)
                   THEN exported \cup {[dir |-> class_dir.name, n |-> Len(class_dataset)]}
                   ELSE exported
    /\ pc' = "dirs"
    /\ UNCHANGED <<n_dirs, d, class_dir, pending, dataset_list, class_dataset,
                   found_class_dirs>>
    /\ UNCHANGED <<csvVars, genVars>>

\* the glob list is exhausted
FinishClasses ==
    /\ pc = "dirs"
    /\ d = n_dirs
    /\ pc' = "done"
    /\ UNCHANGED <<csvVars, classVars, genVars>>

NextClass ==
    NextDir \/ ListDir \/ ConvertFile \/ ReturnClassDataset \/ ExportOrSkip
    \/ FinishClasses

SpecClass == InitClass /\ [][NextClass]_vars

(***************************************************************************)
(* generate_combined_vpn_type_test_sets                                    *)
(***************************************************************************)
CLASS_NAMES == <<"browsing", "chat", "file_transfer", "video", "voip">>
VPN_TYPES_TO_GENERATE == <<"vpn", "tor", "reg">>
\* variant: labels counted from one
CLASS_TO_LABEL_FromOne ==
    [name \in {"browsing", "chat", "file_transfer", "video", "voip"} |->
        CASE name = "browsing" -> 1 [] name = "chat" -> 2
          [] name = "file_transfer" -> 3 [] name = "video" -> 4
          [] OTHER -> 5]
\* {name: i for i, name in enumerate(CLASS_NAMES)}
CLASS_TO_LABEL ==
    [name \in {CLASS_NAMES[j] : j \in 1..Len(CLASS_NAMES)} |->
        (CHOOSE j \in 1..Len(CLASS_NAMES) : CLASS_NAMES[j] = name) - 1]
\* TEST_SIZE = 0.2, in percent
TEST_SIZE_PCT == 20

MaxClassRows == 5
\* what glob and import_array find for one class and tunnel type: no file,
\* a file np.load cannot read, or an array of n FlowPics
ClassFileStates ==
    {[found |-> FALSE, loads |-> FALSE, n |-> 0],
     [found |-> TRUE, loads |-> FALSE, n |-> 0]}
    \cup {[found |-> TRUE, loads |-> TRUE, n |-> n] : n \in {0, 1, MaxClassRows}}

\* the array stored for a class and tunnel type; each FlowPic is kept with
\* the class and tunnel type of the file it was loaded from
ClassArray(class_name, vpn_type, n) ==
    [k \in 1..n |-> [class |-> class_name, vpn |-> vpn_type, k |-> k]]
\* np.full(data_array.shape[0], label_for_this_class)
Full(n, label) == [k \in 1..n |-> label]

\* train_test_split(..., test_size=TEST_SIZE, stratify=y): the sizes of the
\* two parts, ceil(test_size * n) and the rest
TestCount(n) == (TEST_SIZE_PCT * n + 99) \div 100
TrainCount(n) == n - TestCount(n)
\* ValueError of the stratified split: an empty train set, a class with a
\* single member, or fewer train or test rows than classes
SplitRaises(y) ==
    LET labels == {y[k] : k \in 1..Len(y)}
    IN  \/ TrainCount(Len(y)) = 0
        \/ \E l \in labels : Cardinality({k \in 1..Len(y) : y[k] = l}) < 2
        \/ TrainCount(Len(y)) < Cardinality(labels)
        \/ TestCount(Len(y)) < Cardinality(labels)

InitGen ==
    /\ pc = "vpn_types" /\ CsvIdle /\ ClassIdle
    /\ v = 0 /\ c = 0 /\ all_x_for_vpn_type = << >> /\ all_y_for_vpn_type = << >>
    /\ combined_x_vpn_type = << >> /\ combined_y_vpn_type = << >> /\ saved = {}

\* for vpn_type in VPN_TYPES_TO_GENERATE: the two lists start empty
NextVpnType ==
    /\ pc = "vpn_types"
    /\ v < Len(VPN_TYPES_TO_GENERATE)
    /\ v' = v + 1
    /\ c' = 0
    /\ all_x_for_vpn_type' = << >>
    /\ all_y_for_vpn_type' = << >>
    /\ pc' = "classes"
    /\ UNCHANGED <<combined_x_vpn_type, combined_y_vpn_type, saved>>
    /\ UNCHANGED <<csvVars, classVars>>

\* lines 81-105: one class of the current tunnel type
LoadClass ==
    /\ pc = "classes"
    /\ c < Len(CLASS_NAMES)
    /\ c' = c + 1
    /\ \E f \in ClassFileStates :
          LET class_name == CLASS_NAMES[c + 1]
              data_array == ClassArray(class_name, VPN_TYPES_TO_GENERATE[v], f.n)
          IN  IF f.found /\ f.loads /\ NonEmpty(data_array)
              THEN /\ all_x_for_vpn_type' = Append(all_x_for_vpn_type, data_array)
                   /\ all_y_for_vpn_type' =
                         Append(all_y_for_vpn_type,
                                Full(Len(data_array), CLASS_TO_LABEL[class_name]))
              ELSE UNCHANGED <<all_x_for_vpn_type, all_y_for_vpn_type>>
    /\ UNCHANGED <<pc, v, combined_x_vpn_type, combined_y_vpn_type, saved>>
    /\ UNCHANGED <<csvVars, classVars>>

\* lines 108-110: nothing collected, go on with the next tunnel type
SkipVpnType ==
    /\ pc = "classes"
    /\ c = Len(CLASS_NAMES)
    /\ all_x_for_vpn_type = << >>
    /\ pc' = "vpn_types"
    /\ UNCHANGED <<csvVars, classVars, genVars>>

\* lines 114-115
Combine ==
    /\ pc = "classes"
    /\ c = Len(CLASS_NAMES)
    /\ all_x_for_vpn_type # << >>
    /\ combined_x_vpn_type' = Concatenate(all_x_for_vpn_type)
    /\ combined_y_vpn_type' = Concatenate(all_y_for_vpn_type)
    /\ pc' = "split"
    /\ UNCHANGED <<v, c, all_x_for_vpn_type, all_y_for_vpn_type, saved>>
    /\ UNCHANGED <<csvVars, classVars>>

\* lines 123-134: the split succeeds and both test arrays are saved (kept
\* by name and shape)
SplitAndSave ==
    /\ pc = "split"
    /\ ~SplitRaises(combined_y_vpn_type)
    /\ saved' = saved \cup
          {[vpn |-> VPN_TYPES_TO_GENERATE[v], part |-> part,
            n |-> TestCount(Len(combined_y_vpn_type))] : part \in {"x_test", "y_test"}}
    /\ pc' = "vpn_types"
    /\ UNCHANGED <<v, c, all_x_for_vpn_type, all_y_for_vpn_type,
                   combined_x_vpn_type, combined_y_vpn_type>>
    /\ UNCHANGED <<csvVars, classVars>>

\* lines 123-125: train_test_split raises ValueError; nothing catches it
\* and the run ends
SplitFails ==
    /\ pc = "split"
    /\ SplitRaises(combined_y_vpn_type)
    /\ pc' = "raised"
    /\ UNCHANGED <<csvVars, classVars, genVars>>

\* every tunnel type was visited
FinishGen ==
    /\ pc = "vpn_types"
    /\ v = Len(VPN_TYPES_TO_GENERATE)
    /\ pc' = "done"
    /\ UNCHANGED <<csvVars, classVars, genVars>>

NextGen ==
    NextVpnType \/ LoadClass \/ SkipVpnType \/ Combine \/ SplitAndSave
    \/ SplitFails \/ FinishGen

SpecGen == InitGen /\ [][NextGen]_vars

(***************************************************************************)
(* Properties of traffic_csv_converter                                     *)
(***************************************************************************)
\* Helpers of the properties, written from the statements, not from the loop
Last(a) == a[Len(a)]
NonDecreasing(a) == \A j \in 1..(Len(a) - 1) : a[j] <= a[j + 1]
SessionRecord ==
    Len(ts) = Len(sizes) /\ Len(ts) > MinSessionLen /\ NonDecreasing(ts)
\* indices of the packets inside the closed window [t*DELTA_T, t*DELTA_T + TPS]
PacketsIn(a, t) == {j \in 1..Len(a) : t * DELTA_T <= a[j] /\ a[j] <= t * DELTA_T + TPS}
\* the k-th smallest element of a finite set of integers
Kth(S, k) == CHOOSE x \in S : Cardinality({y \in S : y <= x}) = k
Restrict(a, S) == [k \in 1..Cardinality(S) |-> a[Kth(S, k)]]
MeetsThresholds(a, t) ==
    LET S == PacketsIn(a, t)
    IN  /\ Cardinality(S) > MinSegmentLen
        /\ a[Kth(S, Cardinality(S))] - a[Kth(S, 1)] > MIN_TPS
\* one FlowPic per window 0..tmax that meets both thresholds, in window order
ExpectedFlowPics(a, sz, tmax) ==
    LET T == {t \in 0..tmax : MeetsThresholds(a, t)}
    IN  [k \in 1..Cardinality(T) |->
            <<[ts |-> Restrict(a, PacketsIn(a, Kth(T, k))),
               sizes |-> Restrict(sz, PacketsIn(a, Kth(T, k)))]>>]
\* floor(ts[-1]/DELTA_T - TPS/DELTA_T) + 1
FloorPlusOne(a) == ((Last(a) - TPS) \div DELTA_T) + 1
\* int(ts[-1]/DELTA_T - TPS/DELTA_T), int() truncating toward zero
LastScanned(a) ==
    IF Last(a) >= TPS THEN (Last(a) - TPS) \div DELTA_T
    ELSE 0 - ((TPS - Last(a)) \div DELTA_T)
NewEntries == SubSeq(dataset', Len(dataset) + 1, Len(dataset'))
Range(f) == {f[x] : x \in DOMAIN f}

\* C1 (as stated): the FlowPics of a session record are exactly the windows
\* t = 0 .. floor(ts[-1]/DELTA_T - TPS/DELTA_T) + 1 that hold more than 10
\* packets spanning more than MIN_TPS.
C1_AsStated ==
    [][(pc = "segment" /\ SessionRecord)
          => dataset' = dataset \o ExpectedFlowPics(ts, sizes, FloorPlusOne(ts))]_vars

\* C1 (amended): the FlowPics of a session record are exactly the windows
\* t = 0 .. int(ts[-1]/DELTA_T - TPS/DELTA_T) that hold more than 10 packets
\* spanning more than MIN_TPS, appended in window order; none is missed and
\* no other is emitted.
C1_ExactWindows ==
    [][(pc = "segment" /\ SessionRecord)
          => /\ dataset' = dataset \o ExpectedFlowPics(ts, sizes, LastScanned(ts))
             /\ counter' = counter + Len(ExpectedFlowPics(ts, sizes, LastScanned(ts)))]_vars

\* a session was segmented into two FlowPics, appended after an earlier row's
C1_Witness ==
    /\ pc = "rows" /\ i = 2 /\ ParseOutcome(row) = "ok" /\ SessionRecord
    /\ Len(ExpectedFlowPics(ts, sizes, LastScanned(ts))) = 2
    /\ Len(dataset) = 3
    /\ SubSeq(dataset, 2, 3) = ExpectedFlowPics(ts, sizes, LastScanned(ts))

\* C2 (as stated): a session whose last timestamp is below TPS yields no
\* FlowPic.
C2_ShortSessionEmpty ==
    [][(pc = "segment" /\ Len(ts) > 0 /\ Last(ts) < TPS) => dataset' = dataset]_vars

NumericFields(r, lo, hi) == \A j \in (lo + 1)..hi : r[j].k = "num"
FieldValues(r, lo, hi) == [j \in 1..(hi - lo) |-> r[lo + j].v]
\* 8 leading fields with field 7 = n >= 1, then n timestamps, then n sizes
PackedLayout(r) ==
    /\ Len(r) >= 8 /\ r[8].k = "num" /\ r[8].v >= 1
    /\ Len(r) = 8 + 2 * r[8].v
    /\ NumericFields(r, 8, Len(r))
\* 8 leading fields with field 7 = n, then n timestamps, one separator
\* column, then n sizes
SeparatedLayout(r) ==
    /\ Len(r) >= 9 /\ r[8].k = "num" /\ r[8].v >= 0
    /\ Len(r) = 9 + 2 * r[8].v
    /\ NumericFields(r, 8, 8 + r[8].v)
    /\ NumericFields(r, 9 + r[8].v, Len(r))
\* every timestamp lies in one window [t*DELTA_T, t*DELTA_T + TPS], t in 0..tmax
InOneWindow(a, tmax) == \E t \in 0..tmax : PacketsIn(a, t) = 1..Len(a)

RejectedUncounted == pc' = "rows" /\ skipped_segments' = skipped_segments

\* C4 (as stated): a row is rejected for bounds reasons exactly when it has
\* fewer than 9 fields or its declared length overruns the row, where
\* length = row_size - 8 still fits and length = row_size - 7 does not.
C4_AsStated ==
    [][(pc = "parse" /\ (Len(row) < 9 \/ row[8].k = "num"))
          => (RejectedUncounted <=> (Len(row) < 9 \/ 8 + row[8].v > Len(row)))]_vars

\* C4 (amended): a row is rejected for bounds reasons exactly when it has
\* fewer than 9 fields or 9 + length exceeds its field count: length =
\* row_size - 7 and length = row_size - 8 are rejected, length = 0 and
\* length = row_size - 9 (exact fit with the separator column) are not.
C4_BoundsRejection ==
    [][(pc = "parse" /\ (Len(row) < 9 \/ row[8].k = "num"))
          => /\ RejectedUncounted <=> (Len(row) < 9 \/ 9 + row[8].v > Len(row))
             /\ (Len(row) >= 9 /\ row[8].v \in {Len(row) - 7, Len(row) - 8})
                   => RejectedUncounted
             /\ (Len(row) >= 9 /\ row[8].v \in {0, Len(row) - 9})
                   => ~RejectedUncounted]_vars

\* the first row of the file declared length = row_size - 8 and was left
\* without being parsed or counted
C4_Witness ==
    /\ pc = "rows" /\ i = 1 /\ Len(row) >= 9 /\ row[8].k = "num"
    /\ row[8].v = Len(row) - 8
    /\ length = row[8].v /\ ts = << >> /\ skipped_segments = 0

\* a row the Record Parser rejects: too few fields, a declared length that
\* does not fit the row, or a non-numeric field
RowRejected(r) ==
    \/ Len(r) < 9
    \/ r[8].k # "num"
    \/ 9 + r[8].v > Len(r)
    \/ ~NumericFields(r, 8, 8 + r[8].v)
    \/ ~NumericFields(r, 9 + r[8].v, Len(r))

\* C5: every rejected row increments the skip counter exactly once and
\* processing continues with the next row.
C5_RejectionCounted ==
    [][(pc = "parse" /\ RowRejected(row))
          => (pc' = "rows" /\ skipped_segments' = skipped_segments + 1)]_vars

(***************************************************************************)
(* Properties of the aggregation                                           *)
(***************************************************************************)
\* number of rows of array a equal to p
Count(a, p) == Cardinality({k \in 1..Len(a) : a[k] = p})
CsvFilesOf(dir) == {f \in DOMAIN dir.files : dir.files[f].csv}
\* rows equal to p over the arrays of the files F of a directory
RECURSIVE TotalCount(_, _, _)
TotalCount(dir, F, p) ==
    IF F = {} THEN 0
    ELSE LET f == CHOOSE x \in F : TRUE
         IN  Count(CsvConvert(dir.files[f]), p) + TotalCount(dir, F \ {f}, p)
RowsOfFiles(dir) == UNION {Range(CsvConvert(dir.files[f])) : f \in CsvFilesOf(dir)}

\* C6: whatever the order in which the CSV files of a directory were
\* converted, the returned dataset holds every FlowPic exactly as many
\* times as the files yield it; a file yielding none adds no row.
C6_OrderIndependent ==
    (pc = "export" /\ class_dir.kind = "dir")
       => /\ \A p \in RowsOfFiles(class_dir) \cup Range(class_dataset) :
                Count(class_dataset, p)
                   = TotalCount(class_dir, CsvFilesOf(class_dir), p)
          /\ \A f \in CsvFilesOf(class_dir) :
                CsvConvert(class_dir.files[f]) = << >>
                   => Len(class_dataset)
                        = Len(Concatenate(
                             [k \in 1..Cardinality(CsvFilesOf(class_dir) \ {f}) |->
                                CsvConvert(class_dir.files[
                                   Kth(CsvFilesOf(class_dir) \ {f}, k)])]))

\* two files with different FlowPics were converted second file first
C6_Witness ==
    /\ pc = "export" /\ class_dir.kind = "dir"
    /\ DOMAIN class_dir.files = 1..2
    /\ CsvConvert(class_dir.files[1]) # << >>
    /\ CsvConvert(class_dir.files[2]) # << >>
    /\ CsvConvert(class_dir.files[1]) # CsvConvert(class_dir.files[2])
    /\ class_dataset = CsvConvert(class_dir.files[2]) \o CsvConvert(class_dir.files[1])

\* C7: a directory is exported exactly when its CSV files produced at
\* least one FlowPic; otherwise nothing is exported for it and the loop goes
\* on until every matched directory was visited.
C7_ExportIffFlowPics ==
    /\ (pc = "dirs" /\ d >= 1)
          => ((\E e \in exported : e.dir = class_dir.name)
                 <=> (/\ class_dir.kind = "dir"
                      /\ \E f \in CsvFilesOf(class_dir) :
                            CsvConvert(class_dir.files[f]) # << >>))
    /\ \A e \in exported : e.dir \in 1..d /\ e.n > 0
    /\ pc = "done" => d = n_dirs

\* the first directory was exported, the second has no CSV file and was not
C7_Witness ==
    /\ pc = "done" /\ d = 2
    /\ class_dir.kind = "dir" /\ CsvFilesOf(class_dir) = {}
    /\ \E n \in 1..(2 * MaxFiles) : exported = {[dir |-> 1, n |-> n]}

\* C8: a tunnel type without data gets no output file, and every tunnel
\* type with data gets both of its output files.
C8_EveryTypeWithDataSaved ==
    (pc \in {"vpn_types", "done", "raised"} /\ v >= 1)
       => LET files == {f \in saved : f.vpn = VPN_TYPES_TO_GENERATE[v]}
          IN  /\ all_x_for_vpn_type = << >> => files = {}
              /\ all_x_for_vpn_type # << >>
                    => {f.part : f \in files} = {"x_test", "y_test"}

\* C9: the combined feature and label arrays have the same number of rows,
\* and the label of every row is the index of its class in CLASS_NAMES,
\* whichever classes were missing or empty.
C9_LabelsAreClassIndices ==
    pc = "split"
       => /\ Len(combined_x_vpn_type) = Len(combined_y_vpn_type)
          /\ \A k \in 1..Len(combined_x_vpn_type) :
                \E j \in 1..Len(CLASS_NAMES) :
                   /\ CLASS_NAMES[j] = combined_x_vpn_type[k].class
                   /\ combined_y_vpn_type[k] = j - 1

\* browsing and file_transfer contributed nothing; the rows of chat and
\* voip carry 1 and 4
C9_Witness ==
    /\ pc = "split"
    /\ {combined_x_vpn_type[k].class : k \in 1..Len(combined_x_vpn_type)}
          = {"chat", "voip"}
    /\ {combined_y_vpn_type[k] : k \in 1..Len(combined_y_vpn_type)} = {1, 4}
    /\ Len(combined_y_vpn_type) = 1 + MaxClassRows
====
